---- MODULE Spec2Model ----
(***************************************************************************)
(* Model of scripts/list_collections.py: read a token from a file, issue   *)
(* one HTTP GET, parse the JSON body and print the collections whose name  *)
(* does not start with "_", followed by their count.                       *)
(*                                                                         *)
(* Strings the program inspects or builds are sequences of pieces: names,  *)
(* ids and tokens are sequences of one-character strings, the literal      *)
(* parts of the format strings are single pieces.  A Python variable that  *)
(* is not bound yet is the empty sequence, a bound one a 1-element         *)
(* sequence holding its value.                                             *)
(***************************************************************************)
EXTENDS Integers, Sequences, FiniteSets, TLC

VARIABLES pc, tokenFile, token, requests, response, data, i, stdout, err

vars == <<pc, tokenFile, token, requests, response, data, i, stdout, err>>

(* ------------------------------ bounds --------------------------------- *)

MaxItems == 3

(* --------------------------- small universes --------------------------- *)

Unbound == <<>>

Bound(v) == <<v>>

Val(x) == x[1]

Whitespace == {" ", "\n"}

\* states of /tmp/pb_token.txt when the script starts
TokenFiles ==
    { [state |-> "missing"],
      [state |-> "unreadable"],
      [state |-> "ok", text |-> <<"t">>],
      [state |-> "ok", text |-> <<" ", "t", "\n">>] }

StatusCodes == {200, 404, 500}

Names == { <<>>, <<"p">>, <<"_", "s">> }

Ids == { <<"a">>, <<"b">> }

\* elements of items: complete records, records without id, a record without name
Records ==
    { [name |-> n, id |-> d] : n \in Names, d \in Ids }
        \cup { [name |-> n] : n \in {<<"p">>, <<"_", "s">>} }
        \cup { [id |-> <<"a">>] }

SeqsUpTo(S, n) == UNION { [1..k -> S] : k \in 0..n }

\* JSON documents the server may answer with
JsonValues ==
    { [items |-> s] : s \in SeqsUpTo(Records, MaxItems) }
        \cup { [items |-> <<>>, totalItems |-> 0] }
        \cup { [message |-> <<"e">>] }

\* response bodies: text that is not JSON, or the text of a JSON document
Bodies == { [text |-> "malformed"] } \cup { [text |-> "json", value |-> v] : v \in JsonValues }

Url == "http://localhost:8090/api/collections?perPage=100"

(* ----------------------------- pure helpers ---------------------------- *)

RECURSIVE LStrip(_)
LStrip(s) == IF s # <<>> /\ Head(s) \in Whitespace THEN LStrip(Tail(s)) ELSE s

RECURSIVE RStrip(_)
RStrip(s) ==
    IF s # <<>> /\ s[Len(s)] \in Whitespace THEN RStrip(SubSeq(s, 1, Len(s) - 1)) ELSE s

\* str.strip()
Strip(s) == RStrip(LStrip(s))

\* c['name'].startswith('_')
StartsWithUnderscore(name) == Len(name) >= 1 /\ name[1] = "_"

Digit(d) == CASE d = 0 -> "0" [] d = 1 -> "1" [] d = 2 -> "2" [] d = 3 -> "3" [] d = 4 -> "4"
              [] d = 5 -> "5" [] d = 6 -> "6" [] d = 7 -> "7" [] d = 8 -> "8" [] d = 9 -> "9"

\* str(n) of a natural number, as the f-string formats it
RECURSIVE Decimal(_)
Decimal(n) == IF n < 10 THEN <<Digit(n)>> ELSE Decimal(n \div 10) \o <<Digit(n % 10)>>

\* the text of line 18
Header == <<"Custom collections:">>

\* f"  {c['name']}: {c['id']}"
RecordLine(c) == <<"  ">> \o c.name \o <<": ">> \o c.id

\* the test of lines 20 and 23
IsCustom(c) == ~StartsWithUnderscore(c.name)

\* variant: the count taken over every element of items
CountAll(items) == Len(items)

\* len([c for c in data['items'] if not c['name'].startswith('_')])
CustomCount(items) == Len(SelectSeq(items, IsCustom))

\* variant: the summary line without its leading newline
TotalLineNoBlank(n) == <<"Total: ">> \o Decimal(n) \o <<" custom collections">>

\* f"\nTotal: {n} custom collections"
TotalLine(n) == <<"\n", "Total: ">> \o Decimal(n) \o <<" custom collections">>

\* the element raises KeyError when the loop body of lines 20-21 runs on it
RaisesInLoop(c) ==
    IF "name" \notin DOMAIN c
        THEN TRUE
        ELSE IF StartsWithUnderscore(c.name) THEN FALSE ELSE "id" \notin DOMAIN c

Items == Val(data).items

(* -------------------------------- state -------------------------------- *)

Init ==
    /\ pc = "load_token"
    /\ tokenFile \in TokenFiles
    /\ token = Unbound
    /\ requests = <<>>
    /\ response = Unbound
    /\ data = Unbound
    /\ i = 0
    /\ stdout = <<>>
    /\ err = "none"

\* variant: a token file that cannot be opened is replaced by an empty token
LoadTokenFallback ==
    /\ pc = "load_token"
    /\ token' = Bound(IF tokenFile.state = "ok" THEN Strip(tokenFile.text) ELSE <<>>)
    /\ pc' = "fetch"
    /\ UNCHANGED <<tokenFile, requests, response, data, i, stdout, err>>

\* lines 6-7: with open(...) as f: token = f.read().strip()
LoadToken ==
    /\ pc = "load_token"
    /\ \/ /\ tokenFile.state = "ok"
          /\ token' = Bound(Strip(tokenFile.text))
          /\ pc' = "fetch"
          /\ err' = err
       \/ /\ tokenFile.state = "missing"
          /\ pc' = "abort"
          /\ err' = "FileNotFoundError"
          /\ token' = token
       \/ /\ tokenFile.state = "unreadable"
          /\ pc' = "abort"
          /\ err' = "PermissionError"
          /\ token' = token
    /\ UNCHANGED <<tokenFile, requests, response, data, i, stdout>>

\* variant: a failed request is sent again
FetchRetry ==
    /\ pc = "fetch"
    /\ requests' = Append(requests, [url |-> Url, Authorization |-> Val(token)])
    /\ \/ /\ \E s \in StatusCodes, b \in Bodies : response' = Bound([status |-> s, body |-> b])
          /\ pc' = "parse"
          /\ err' = err
       \/ /\ response' = response
          /\ pc' = IF Len(requests) < 2 THEN "fetch" ELSE "abort"
          /\ err' = IF Len(requests) < 2 THEN err ELSE "ConnectionError"
    /\ UNCHANGED <<tokenFile, token, data, i, stdout>>

\* lines 10-13: response = requests.get(url, headers={'Authorization': token})
Fetch ==
    /\ pc = "fetch"
    /\ requests' = Append(requests, [url |-> Url, Authorization |-> Val(token)])
    /\ \/ /\ \E s \in StatusCodes, b \in Bodies : response' = Bound([status |-> s, body |-> b])
          /\ pc' = "parse"
          /\ err' = err
       \/ /\ response' = response
          /\ pc' = "abort"
          /\ err' = "ConnectionError"
    /\ UNCHANGED <<tokenFile, token, data, i, stdout>>

\* variant: response.raise_for_status() before response.json()
ParseRaiseForStatus(resp) ==
    /\ pc = "parse"
    /\ \/ /\ resp.status < 400
          /\ resp.body.text = "json"
          /\ data' = Bound(resp.body.value)
          /\ pc' = "print_header"
          /\ err' = err
       \/ /\ resp.status < 400
          /\ resp.body.text # "json"
          /\ data' = data
          /\ pc' = "abort"
          /\ err' = "JSONDecodeError"
       \/ /\ resp.status >= 400
          /\ data' = data
          /\ pc' = "abort"
          /\ err' = "HTTPError"
    /\ UNCHANGED <<tokenFile, token, requests, response, i, stdout>>

\* variant: a body that is not JSON is caught and read as an empty listing
ParseCatch(resp) ==
    /\ pc = "parse"
    /\ data' = Bound(IF resp.body.text = "json" THEN resp.body.value ELSE [items |-> <<>>])
    /\ pc' = "print_header"
    /\ UNCHANGED <<tokenFile, token, requests, response, i, stdout, err>>

\* line 15: data = response.json()
Parse(resp) ==
    /\ pc = "parse"
    /\ \/ /\ resp.body.text = "json"
          /\ data' = Bound(resp.body.value)
          /\ pc' = "print_header"
          /\ err' = err
       \/ /\ resp.body.text # "json"
          /\ data' = data
          /\ pc' = "abort"
          /\ err' = "JSONDecodeError"
    /\ UNCHANGED <<tokenFile, token, requests, response, i, stdout>>

\* line 18: print("Custom collections:")
PrintHeader ==
    /\ pc = "print_header"
    /\ stdout' = Append(stdout, Header)
    /\ pc' = "get_items"
    /\ UNCHANGED <<tokenFile, token, requests, response, data, i, err>>

\* variant: data.get('items', []) in place of data['items']
GetItemsDefault ==
    /\ pc = "get_items"
    /\ data' = IF "items" \in DOMAIN Val(data) THEN data ELSE Bound([items |-> <<>>])
    /\ i' = 1
    /\ pc' = "loop"
    /\ UNCHANGED <<tokenFile, token, requests, response, stdout, err>>

\* line 19: evaluating data['items'] to start the for loop
GetItems ==
    /\ pc = "get_items"
    /\ \/ /\ "items" \in DOMAIN Val(data)
          /\ i' = 1
          /\ pc' = "loop"
          /\ err' = err
       \/ /\ "items" \notin DOMAIN Val(data)
          /\ i' = i
          /\ pc' = "abort"
          /\ err' = "KeyError"
    /\ UNCHANGED <<tokenFile, token, requests, response, data, stdout>>

\* variant: the loop body without the test of line 20
LoopStepNoFilter ==
    /\ pc = "loop"
    /\ \/ /\ i <= Len(Items)
          /\ DOMAIN Items[i] = {"name", "id"}
          /\ stdout' = Append(stdout, RecordLine(Items[i]))
          /\ i' = i + 1
          /\ pc' = pc
          /\ err' = err
       \/ /\ i <= Len(Items)
          /\ DOMAIN Items[i] # {"name", "id"}
          /\ pc' = "abort"
          /\ err' = "KeyError"
          /\ UNCHANGED <<i, stdout>>
       \/ /\ i > Len(Items)
          /\ pc' = "print_total"
          /\ UNCHANGED <<i, stdout, err>>
    /\ UNCHANGED <<tokenFile, token, requests, response, data>>

\* variant: each record line is written right below the header
LoopStepPrepend ==
    /\ pc = "loop"
    /\ \/ /\ i <= Len(Items)
          /\ ~RaisesInLoop(Items[i])
          /\ stdout' = IF IsCustom(Items[i])
                           THEN <<Head(stdout), RecordLine(Items[i])>> \o Tail(stdout)
                           ELSE stdout
          /\ i' = i + 1
          /\ pc' = pc
          /\ err' = err
       \/ /\ i <= Len(Items)
          /\ RaisesInLoop(Items[i])
          /\ pc' = "abort"
          /\ err' = "KeyError"
          /\ UNCHANGED <<i, stdout>>
       \/ /\ i > Len(Items)
          /\ pc' = "print_total"
          /\ UNCHANGED <<i, stdout, err>>
    /\ UNCHANGED <<tokenFile, token, requests, response, data>>

\* variant: a KeyError in the loop is caught, the loop is left and the records
\* seen so far are summarised
LoopStepCatch ==
    /\ pc = "loop"
    /\ \/ /\ i <= Len(Items)
          /\ ~RaisesInLoop(Items[i])
          /\ stdout' = IF IsCustom(Items[i]) THEN Append(stdout, RecordLine(Items[i])) ELSE stdout
          /\ i' = i + 1
          /\ pc' = pc
          /\ err' = err
       \/ /\ i <= Len(Items)
          /\ RaisesInLoop(Items[i])
          /\ stdout' = Append(stdout, TotalLine(CustomCount(SubSeq(Items, 1, i - 1))))
          /\ pc' = "done"
          /\ UNCHANGED <<i, err>>
       \/ /\ i > Len(Items)
          /\ pc' = "print_total"
          /\ UNCHANGED <<i, stdout, err>>
    /\ UNCHANGED <<tokenFile, token, requests, response, data>>

\* lines 19-21: one turn of the for loop, or its end
LoopStep ==
    /\ pc = "loop"
    /\ \/ /\ i <= Len(Items)
          /\ ~RaisesInLoop(Items[i])
          /\ stdout' = IF IsCustom(Items[i]) THEN Append(stdout, RecordLine(Items[i])) ELSE stdout
          /\ i' = i + 1
          /\ pc' = pc
          /\ err' = err
       \/ /\ i <= Len(Items)
          /\ RaisesInLoop(Items[i])
          /\ pc' = "abort"
          /\ err' = "KeyError"
          /\ UNCHANGED <<i, stdout>>
       \/ /\ i > Len(Items)
          /\ pc' = "print_total"
          /\ UNCHANGED <<i, stdout, err>>
    /\ UNCHANGED <<tokenFile, token, requests, response, data>>

\* line 23: print(f"\nTotal: {len([...])} custom collections")
PrintTotal ==
    /\ pc = "print_total"
    /\ stdout' = Append(stdout, TotalLine(CustomCount(Items)))
    /\ pc' = "done"
    /\ UNCHANGED <<tokenFile, token, requests, response, data, i, err>>

Next ==
    \/ LoadToken
    \/ Fetch
    \/ Parse(Val(response))
    \/ PrintHeader
    \/ GetItems
    \/ LoopStep
    \/ PrintTotal

Spec == Init /\ [][Next]_vars

\* the interpreter runs the script's statements one after the other
FairSpec == Spec /\ WF_vars(Next)

(* --------------------------- reading the output ------------------------ *)

\* what a terminal shows: every print call's text followed by a newline
RECURSIVE Flat(_)
Flat(out) == IF out = <<>> THEN <<>> ELSE Head(out) \o <<"\n">> \o Flat(Tail(out))

IsRecordLineText(t) == Len(t) >= 1 /\ t[1] = "  "

IsTotalText(t) == Len(t) >= 2 /\ t[2] = "Total: "

RecordLines(out) == SelectSeq(out, IsRecordLineText)

TotalPrinted == \E k \in 1..Len(stdout) : IsTotalText(stdout[k])

\* the lines the records of s give, in the order of s
LinesOf(s) ==
    LET sel == SelectSeq(s, IsCustom)
    IN  [k \in 1..Len(sel) |-> RecordLine(sel[k])]

HasItems == data # Unbound /\ "items" \in DOMAIN Val(data)

InReport == HasItems /\ i >= 1

\* the parsed document has an items field and it is the empty sequence
ItemsEmpty == IF data = Unbound THEN FALSE
              ELSE IF "items" \in DOMAIN Val(data) THEN Val(data).items = <<>> ELSE FALSE

WellFormed(items) == \A k \in 1..Len(items) : DOMAIN items[k] = {"name", "id"}

SystemPositions(items) == { k \in 1..Len(items) : StartsWithUnderscore(items[k].name) }

(* -------------------------------- claims ------------------------------- *)

\* C1: when every element of items has name and id, no printed record line
\* belongs to a record whose name starts with "_", and the number in the
\* summary line leaves every such record out.
C1_SystemRecordsHidden ==
    (InReport /\ WellFormed(Items)) =>
        /\ \A k \in 1..Len(stdout) : IsRecordLineText(stdout[k]) => stdout[k][2] # "_"
        /\ \A k \in 1..Len(stdout) : \A j \in SystemPositions(Items) :
                stdout[k] # RecordLine(Items[j])
        /\ pc = "done" =>
                stdout[Len(stdout)] = TotalLine(Len(Items) - Cardinality(SystemPositions(Items)))

C1_Witness ==
    /\ pc = "done"
    /\ WellFormed(Items)
    /\ SystemPositions(Items) # {}
    /\ Len(RecordLines(stdout)) >= 1

\* C2: in a run that printed the summary line, its number is the number of
\* record lines printed before it.
C2_CountMatchesLines ==
    TotalPrinted => stdout[Len(stdout)] = TotalLine(Len(RecordLines(stdout)))

C2_Witness ==
    /\ pc = "done"
    /\ Len(RecordLines(stdout)) = 2
    /\ Len(Items) = 3

\* C3: the record lines printed so far are the lines of the non-"_" records
\* among the elements traversed so far, in the order of items, one line each.
C3_OrderPreserved ==
    InReport =>
        /\ RecordLines(stdout) = LinesOf(SubSeq(Items, 1, i - 1))
        /\ pc \in {"print_total", "done"} => RecordLines(stdout) = LinesOf(Items)

C3_Witness ==
    /\ pc = "done"
    /\ Len(RecordLines(stdout)) >= 2
    /\ RecordLines(stdout)[1] # RecordLines(stdout)[2]
    /\ SystemPositions(Items) # {}

\* C4: with items empty, whatever the status and the other fields, the run
\* ends successfully and its whole output is the header, a blank line and
\* "Total: 0 custom collections".
C4_EmptyItems ==
    /\ []((pc = "done" /\ ItemsEmpty) =>
            Flat(stdout) = <<"Custom collections:", "\n",
                             "\n", "Total: ", "0", " custom collections", "\n">>)
    /\ [](ItemsEmpty => pc # "abort")
    /\ (pc = "print_header" /\ ItemsEmpty) ~> (pc = "done" /\ ItemsEmpty)

C4_Witness ==
    /\ pc = "done"
    /\ Items = <<>>
    /\ Val(response).status = 500
    /\ DOMAIN Val(data) # {"items"}

\* C5: a request is sent only after the token was loaded; with the token
\* file absent or unreadable the run stops with no request and no output.
C5_NoRequestWithoutToken ==
    /\ requests # <<>> => (tokenFile.state = "ok" /\ token # Unbound)
    /\ tokenFile.state # "ok" =>
            /\ requests = <<>>
            /\ stdout = <<>>
            /\ pc \in {"load_token", "abort"}
            /\ pc = "abort" => err \in {"FileNotFoundError", "PermissionError"}

C5_Witness ==
    /\ pc = "abort"
    /\ tokenFile.state = "missing"
    /\ err = "FileNotFoundError"

\* a non-200 response whose body is a JSON document without the items field
ErrorBodyWithoutItems ==
    /\ response # Unbound
    /\ Val(response).status # 200
    /\ Val(response).body.text = "json"
    /\ "items" \notin DOMAIN Val(response).body.value

\* C6 as stated: such a response aborts the run with a missing-field failure
\* and the output is empty when it aborts.
C6_Original ==
    (ErrorBodyWithoutItems /\ pc = "abort") => (err = "KeyError" /\ stdout = <<>>)

\* C6 amended: such a response aborts the run with a missing-field failure
\* when items is first accessed; by then the header line, and nothing else,
\* has been printed.
C6_HeaderThenAbort ==
    ErrorBodyWithoutItems =>
        /\ pc \in {"parse", "print_header", "get_items", "abort"}
        /\ pc = "abort" => (err = "KeyError" /\ stdout = <<Header>>)

C6_Witness ==
    /\ ErrorBodyWithoutItems
    /\ pc = "abort"
    /\ err = "KeyError"

\* the steps that follow the fetch, taken on the response resp
StepOn(resp) ==
    \/ Parse(resp)
    \/ PrintHeader
    \/ GetItems
    \/ LoopStep
    \/ PrintTotal

\* C7: every step taken after the fetch is also the step the program takes
\* on the same body under any other status code: the status decides nothing.
C7_StatusIgnored ==
    [][ response # Unbound =>
            \A s \in StatusCodes : StepOn([Val(response) EXCEPT !.status = s]) ]_vars

C7_Witness ==
    /\ pc = "done"
    /\ Val(response).status = 404
    /\ Len(stdout) = 3

\* C8: at most one request is ever sent; a network failure ends the run with
\* that one request and no response, and a run that got a response never
\* sends another.
C8_AtMostOneRequest ==
    /\ Len(requests) <= 1
    /\ err = "ConnectionError" => (pc = "abort" /\ Len(requests) = 1 /\ response = Unbound)
    /\ response # Unbound => Len(requests) = 1

C8_Witness ==
    /\ pc = "done"
    /\ Len(requests) = 1
    /\ Len(Items) >= 1

\* the state makes the statement at pc fail
StepFails ==
    CASE pc = "load_token" -> tokenFile.state # "ok"
      [] pc = "parse" -> Val(response).body.text # "json"
      [] pc = "get_items" -> "items" \notin DOMAIN Val(data)
      [] pc = "loop" -> IF i <= Len(Items) THEN RaisesInLoop(Items[i]) ELSE FALSE
      [] OTHER -> FALSE

StepOrder ==
    { <<"load_token", "fetch">>, <<"fetch", "parse">>, <<"parse", "print_header">>,
      <<"print_header", "get_items">>, <<"get_items", "loop">>, <<"loop", "loop">>,
      <<"loop", "print_total">>, <<"print_total", "done">> }

\* C9: a failing step leads straight to abort and leaves the output as it
\* was; nothing happens after abort (or after the end); a step that sends no
\* request leaves the requests alone; and the steps follow one another in the
\* order load token, fetch, parse, header, records, total.
C9_FailFast ==
    [][ /\ pc \notin {"abort", "done"}
        /\ StepFails => pc' = "abort"
        /\ (pc = "fetch" /\ response' = Unbound) => pc' = "abort"
        /\ pc' = "abort" => (stdout' = stdout /\ err' # "none" /\ data' = data)
        /\ pc' # "abort" => (<<pc, pc'>> \in StepOrder /\ err' = "none")
        /\ pc # "fetch" => requests' = requests
        /\ Len(stdout') >= Len(stdout) ]_vars

C9_Witness ==
    /\ pc = "abort"
    /\ err = "JSONDecodeError"
    /\ Len(requests) = 1
    /\ stdout = <<>>

====
